---- MODULE Spec2Model ----
(***************************************************************************)
(* A model of src/src/main.rs of rust-huffman: the Huffman tree builder    *)
(* (impl From<HashMap<u8, u64>> for Tree), the code deriver (Tree::encode) *)
(* and the bit packer (BitWriter).                                         *)
(*                                                                         *)
(* Two specifications share the variables:                                 *)
(*   Spec    main(): the parsed table, Tree::from step by step, encode;    *)
(*           then a derived code is given to write_bits of a fresh         *)
(*           BitWriter, and the writer is dropped.  main() itself builds   *)
(*           no BitWriter: no code of the repository calls it, and this    *)
(*           last stage is the use the derived codes are made for;         *)
(*   SpecBW  a BitWriter alone, driven by arbitrary write_bits requests    *)
(*           and dropped.                                                  *)
(* FairSpec is Spec with main() running to completion.                     *)
(***************************************************************************)
EXTENDS Integers, Sequences, FiniteSets, TLC

\* ------------------------------------------------------------------ bounds
\* Symbols of the general tables are 1..MaxSyms, their counts 1..MaxFreq.
MaxSyms == 4
MaxFreq == 2
\* write_bits calls made on one writer before it is dropped, in Spec and SpecBW.
MaxCodeWrites == 1
MaxWrites == 2
\* write_bits requests of SpecBW carry bits 0..MaxBitsValue (and 255).
MaxBitsValue == 5

\* ------------------------------------------------------- program constants
BYTE_BITS == 8

VARIABLES
    probs,          \* main: `map`, the HashMap<u8, u64> returned by parse()
    queue,          \* Tree::from: the BinaryHeap, as the set of trees it holds
    first,          \* Tree::from: the local `first` of the last loop pass
    second,         \* Tree::from: the local `second` of the last loop pass
    steps,          \* number of loop passes of Tree::from made so far
    tree,           \* main: `tree`
    codes,          \* main: the HashMap<u8, (u64, usize)> returned by encode()
    pc,             \* position of main: "main", "loop", "built", "encoded",
                    \* "panicked"; "idle" when only a BitWriter is run
    buffer,         \* BitWriter.buffer (u8)
    buffer_len,     \* BitWriter.buffer_len (usize)
    inner,          \* BitWriter.inner: the bytes the sink has received
    wpc,            \* the writer: "open", "dropped", "panicked"
    overflow_checks,\* the build: TRUE when arithmetic overflow panics (debug)
    overflowed,     \* an arithmetic overflow has happened in a shift
    requests,       \* the write_bits requests made so far, <<bits, length>>
    last            \* the last write_bits call: its request, the writer before it

treeVars == <<probs, queue, first, second, steps, tree, codes, pc>>
writerVars == <<buffer, buffer_len, inner, wpc, overflowed, requests, last>>
vars == <<probs, queue, first, second, steps, tree, codes, pc,
          buffer, buffer_len, inner, wpc, overflow_checks, overflowed, requests, last>>

\* -------------------------------------------------------------- the table
Symbols == 1..MaxSyms

\* The table of the classic example: a:5 b:9 c:12 d:13 e:16 f:45.
ClassicTable == (1 :> 5) @@ (2 :> 9) @@ (3 :> 12) @@ (4 :> 13) @@ (5 :> 16) @@ (6 :> 45)

\* A table whose tree is as deep as six symbols allow.
SkewedTable == (1 :> 1) @@ (2 :> 1) @@ (3 :> 2) @@ (4 :> 3) @@ (5 :> 5) @@ (6 :> 8)

\* parse(): one entry per byte seen, counting its occurrences (so every count
\* is at least 1); the map is empty when stdin is.
parse ==
    (UNION {[S -> 1..MaxFreq] : S \in SUBSET Symbols}) \cup {ClassicTable, SkewedTable}

\* ---------------------------------------------------------------- the tree
NoTree == [kind |-> "None"]
Leaf(c, p) == [kind |-> "Leaf", c |-> c, p |-> p]
Node(l, r, p) == [kind |-> "Node", l |-> l, r |-> r, p |-> p]

\* Tree::prob
prob(t) == t.p

\* add with the weight of the left operand alone.
add_left_weight(self, right) == Node(self, right, prob(self))

\* impl Add for Tree.  The sum is a u64; the counts of this model sum far
\* below 2^64, so the addition never wraps.
add(self, right) == Node(self, right, prob(self) + prob(right))

\* u64::cmp
cmp(a, b) == IF a < b THEN "Less" ELSE IF a = b THEN "Equal" ELSE "Greater"

\* partial_cmp without the reversal: the heap becomes a max-heap.
partial_cmp_natural(self, other) == cmp(prob(self), prob(other))

\* impl PartialOrd for Tree: the comparison is reversed, other against self.
\* BinaryHeap orders its elements with the operators <= and >=, which are
\* PartialOrd's, so this is the order of the heap (not the derived Ord).
partial_cmp(self, other) == cmp(prob(other), prob(self))

\* pop from an unordered collection: any element.
Greatest_any(q) == q

\* BinaryHeap::pop: a greatest element of the heap.  Which of several equal
\* elements the heap surfaces depends on the HashMap's iteration order and on
\* the heap's layout: any of them.
Greatest(q) == {t \in q : \A u \in q : partial_cmp(u, t) # "Greater"}

\* The loop run while the heap is not empty.
LoopGuard_nonempty(q) == Cardinality(q) > 0

\* Tree::from, the loop's condition.
LoopGuard(q) == Cardinality(q) > 1

RECURSIVE Leaves(_)
Leaves(t) == IF t.kind = "Leaf" THEN {t} ELSE Leaves(t.l) \cup Leaves(t.r)

RECURSIVE Internal(_)
Internal(t) == IF t.kind = "Leaf" THEN {} ELSE {t} \cup Internal(t.l) \cup Internal(t.r)

RECURSIVE CountLeaves(_)
CountLeaves(t) == IF t.kind = "Leaf" THEN 1 ELSE CountLeaves(t.l) + CountLeaves(t.r)

RECURSIVE CountInternal(_)
CountInternal(t) ==
    IF t.kind = "Leaf" THEN 0 ELSE 1 + CountInternal(t.l) + CountInternal(t.r)

\* HashMap::insert
Insert(map, k, v) == [x \in (DOMAIN map) \cup {k} |-> IF x = k THEN v ELSE map[x]]

EmptyMap == [x \in {} |-> 0]

\* (prefix << 1) | bit on a u64.  The depth of a tree of this model is below
\* the number of its symbols, far below 64, so no bit is shifted out.
ShlOr(prefix, bit) == prefix * 2 + bit

\* recurse with bit 0 appended on both sides.
RECURSIVE recurse_samebit(_, _, _, _)
recurse_samebit(node, map, prefix, depth) ==
    IF node.kind = "Leaf"
    THEN Insert(map, node.c, <<prefix, depth>>)
    ELSE recurse_samebit(node.r,
                         recurse_samebit(node.l, map, ShlOr(prefix, 0), depth + 1),
                         ShlOr(prefix, 0), depth + 1)

\* recurse with the depth not counted on the left side.
RECURSIVE recurse_depth(_, _, _, _)
recurse_depth(node, map, prefix, depth) ==
    IF node.kind = "Leaf"
    THEN Insert(map, node.c, <<prefix, depth>>)
    ELSE recurse_depth(node.r,
                       recurse_depth(node.l, map, ShlOr(prefix, 0), depth),
                       ShlOr(prefix, 1), depth + 1)

\* Tree::encode, the inner fn recurse.
RECURSIVE recurse(_, _, _, _)
recurse(node, map, prefix, depth) ==
    IF node.kind = "Leaf"
    THEN Insert(map, node.c, <<prefix, depth>>)
    ELSE recurse(node.r, recurse(node.l, map, ShlOr(prefix, 0), depth + 1),
                 ShlOr(prefix, 1), depth + 1)

\* encode with the root at depth 1.
encode_depth1(t) == recurse(t, EmptyMap, 0, 1)

\* Tree::encode
encode(t) == recurse(t, EmptyMap, 0, 0)

\* ---------------------------------------------------------- the bit writer
Min(a, b) == IF a < b THEN a ELSE b

\* a & b and a | b on unsigned integers, bit by bit.
RECURSIVE BitAnd(_, _)
BitAnd(a, b) ==
    IF a = 0 \/ b = 0 THEN 0
    ELSE (a % 2) * (b % 2) + 2 * BitAnd(a \div 2, b \div 2)

RECURSIVE BitOr(_, _)
BitOr(a, b) ==
    IF a = 0 THEN b
    ELSE IF b = 0 THEN a
    ELSE (IF a % 2 = 1 \/ b % 2 = 1 THEN 1 ELSE 0) + 2 * BitOr(a \div 2, b \div 2)

\* usize::saturating_sub
saturating_sub(a, b) == IF a > b THEN a - b ELSE 0

\* u8::overflowing_shl(n).0: the shift amount is taken modulo the width, 8,
\* and the bits shifted past bit 7 are lost.
overflowing_shl(x, n) == (x * 2 ^ (n % BYTE_BITS)) % 2 ^ BYTE_BITS

\* BitWriter::new
new == [buffer |-> 0, buffer_len |-> 0, inner |-> <<>>]

\* BitWriter::consume_bits on the writer w.  The literal 1 of `1 << to_consume`
\* is a u8 (it is and-ed with `bits as u8`), so a shift by 8 overflows: a build
\* with overflow checks panics there, after the buffer was shifted; any other
\* build takes the shift amount modulo 8.  The u64 `bits` is shifted by at most
\* 8, which never overflows.  buffer_len is read, and never written.
consume_bits(w, bits, length) ==
    LET to_consume == Min(saturating_sub(BYTE_BITS, w.buffer_len), length)
        shifted == overflowing_shl(w.buffer, to_consume)
        overflow == to_consume >= BYTE_BITS
        mask == 2 ^ (to_consume % BYTE_BITS) - 1
    IN  [w |-> [w EXCEPT !.buffer = IF overflow /\ overflow_checks
                                    THEN shifted
                                    ELSE BitOr(shifted, BitAnd(bits % 2 ^ BYTE_BITS, mask))],
         bits |-> bits \div 2 ^ to_consume,
         length |-> length - to_consume,
         to_consume |-> to_consume,
         overflow |-> overflow]

\* BitWriter::flush_byte, on a sink that takes every byte.
flush_byte(w) ==
    IF w.buffer_len = BYTE_BITS
    THEN [w EXCEPT !.inner = Append(w.inner, w.buffer), !.buffer_len = 0]
    ELSE w

\* impl Drop for BitWriter
drop(w) ==
    IF w.buffer_len > 0
    THEN [w EXCEPT !.inner = Append(w.inner, w.buffer)]
    ELSE w

\* BitWriter::write_bits: the loop, from the writer w with (bits, length) left
\* and the bit counts `chunks` taken by the passes so far.  A panic ends it.
RECURSIVE write_loop(_, _, _, _, _)
write_loop(w, bits, length, chunks, overflow) ==
    IF length > 0
    THEN LET r == consume_bits(w, bits, length)
         IN  IF r.overflow /\ overflow_checks
             THEN [w |-> r.w, chunks |-> chunks, overflow |-> TRUE, panic |-> TRUE]
             ELSE write_loop(flush_byte(r.w), r.bits, r.length,
                             Append(chunks, r.to_consume), overflow \/ r.overflow)
    ELSE [w |-> w, chunks |-> chunks, overflow |-> overflow, panic |-> FALSE]

\* BitWriter::write_bits
write_bits(w, bits, length) == write_loop(w, bits, length, <<>>, FALSE)

Writer == [buffer |-> buffer, buffer_len |-> buffer_len, inner |-> inner]

NoCall == [length |-> -1]

\* ------------------------------------------------------------------ states
Fresh ==
    /\ buffer = new.buffer /\ buffer_len = new.buffer_len /\ inner = new.inner
    /\ wpc = "open" /\ overflowed = FALSE /\ requests = <<>> /\ last = NoCall
    /\ overflow_checks \in BOOLEAN

\* main, after parse() has returned the table.
Init ==
    /\ probs \in parse
    /\ queue = {} /\ first = NoTree /\ second = NoTree /\ steps = 0
    /\ tree = NoTree /\ codes = EmptyMap /\ pc = "main"
    /\ Fresh

\* A BitWriter over an empty sink, and nothing else.
InitBW ==
    /\ probs = EmptyMap
    /\ queue = {} /\ first = NoTree /\ second = NoTree /\ steps = 0
    /\ tree = NoTree /\ codes = EmptyMap /\ pc = "idle"
    /\ Fresh

\* ----------------------------------------------------------------- actions
\* Tree::from, lines 101-103: one Leaf per entry of the table, collected
\* into the heap.
From ==
    /\ pc = "main"
    /\ queue' = {Leaf(c, probs[c]) : c \in DOMAIN probs}
    /\ pc' = "loop"
    /\ UNCHANGED <<probs, first, second, steps, tree, codes>>
    /\ UNCHANGED <<writerVars, overflow_checks>>

\* Tree::from, one pass of the loop: two pops and a push.  pop().unwrap()
\* panics on an empty heap.
Combine ==
    /\ pc = "loop"
    /\ LoopGuard(queue)
    /\ \E f \in Greatest(queue) :
          LET rest == queue \ {f}
          IN  IF rest = {}
              THEN /\ pc' = "panicked"
                   /\ first' = f
                   /\ queue' = rest
                   /\ UNCHANGED <<second, steps>>
              ELSE \E s \in Greatest(rest) :
                      /\ first' = f
                      /\ second' = s
                      /\ queue' = (rest \ {s}) \cup {add(f, s)}
                      /\ steps' = steps + 1
                      /\ pc' = "loop"
    /\ UNCHANGED <<probs, tree, codes>>
    /\ UNCHANGED <<writerVars, overflow_checks>>

\* Tree::from, line 111: the last pop, which panics ("At least one
\* character") on an empty heap; main, line 10.
Finish ==
    /\ pc = "loop"
    /\ ~LoopGuard(queue)
    /\ IF queue = {}
       THEN /\ pc' = "panicked"
            /\ UNCHANGED <<tree, queue>>
       ELSE \E t \in Greatest(queue) :
               /\ tree' = t
               /\ queue' = queue \ {t}
               /\ pc' = "built"
    /\ UNCHANGED <<probs, first, second, steps, codes>>
    /\ UNCHANGED <<writerVars, overflow_checks>>

\* main, line 15: tree.encode()
Encode ==
    /\ pc = "built"
    /\ codes' = encode(tree)
    /\ pc' = "encoded"
    /\ UNCHANGED <<probs, queue, first, second, steps, tree>>
    /\ UNCHANGED <<writerVars, overflow_checks>>

\* One call of write_bits(bits, length) on the open writer.  A panic unwinds
\* through the writer, which is dropped.
Call(bits, length) ==
    LET r == write_bits(Writer, bits, length)
        w == IF r.panic THEN drop(r.w) ELSE r.w
    IN  /\ buffer' = w.buffer
        /\ buffer_len' = w.buffer_len
        /\ inner' = w.inner
        /\ wpc' = IF r.panic THEN "panicked" ELSE "open"
        /\ overflowed' = (overflowed \/ r.overflow)
        /\ requests' = Append(requests, <<bits, length>>)
        /\ last' = [bits |-> bits, length |-> length, before |-> Writer,
                    chunks |-> r.chunks, panic |-> r.panic, overflow |-> r.overflow]
        /\ UNCHANGED overflow_checks

\* The code of one symbol of the table written to the writer.
WriteCode ==
    /\ pc \in {"encoded", "writing"}
    /\ wpc = "open"
    /\ Len(requests) < MaxCodeWrites
    /\ \E c \in DOMAIN codes : Call(codes[c][1], codes[c][2])
    /\ pc' = "writing"
    /\ UNCHANGED <<probs, queue, first, second, steps, tree, codes>>

BitsValues == (0..MaxBitsValue) \cup {255}
Lengths == {0, 1, 2, 3, 5, 8, 9, 64}

\* write_bits with any request.
WriteBits ==
    /\ pc = "idle"
    /\ wpc = "open"
    /\ Len(requests) < MaxWrites
    /\ \E bits \in BitsValues, length \in Lengths : Call(bits, length)
    /\ UNCHANGED treeVars

\* The writer goes out of scope.
Drop ==
    /\ pc \in {"encoded", "writing", "idle"}
    /\ wpc = "open"
    /\ LET w == drop(Writer)
       IN  /\ buffer' = w.buffer
           /\ buffer_len' = w.buffer_len
           /\ inner' = w.inner
    /\ wpc' = "dropped"
    /\ pc' = IF pc = "idle" THEN "idle" ELSE "writing"
    /\ UNCHANGED <<probs, queue, first, second, steps, tree, codes>>
    /\ UNCHANGED <<overflow_checks, overflowed, requests, last>>

Next == From \/ Combine \/ Finish \/ Encode \/ WriteCode \/ Drop

Spec == Init /\ [][Next]_vars

NextBW == WriteBits \/ Drop

SpecBW == InitBW /\ [][NextBW]_vars

\* main runs to completion: nothing suspends it.
FairSpec == Init /\ [][Next]_vars /\ WF_vars(From \/ Combine \/ Finish \/ Encode)

\* ------------------------------------------------------------- properties
NSyms == Cardinality(DOMAIN probs)

Encoded == pc \in {"encoded", "writing"}
Built == pc \in {"built", "encoded", "writing"}

RECURSIVE SumFreq(_)
SumFreq(S) ==
    IF S = {} THEN 0
    ELSE LET x == CHOOSE x \in S : TRUE IN probs[x] + SumFreq(S \ {x})

RECURSIVE SumOver(_, _)
SumOver(S, f) ==
    IF S = {} THEN 0
    ELSE LET x == CHOOSE x \in S : TRUE IN f[x] + SumOver(S \ {x}, f)

MinOf(S) == CHOOSE m \in S : \A k \in S : m <= k

\* The code a is a prefix of the code b, each <<pattern, length>> read as the
\* bit string of `length` bits whose value is `pattern`, first bit first.
IsPrefix(a, b) == a[2] <= b[2] /\ b[1] \div 2 ^ (b[2] - a[2]) = a[1]

Cost == SumOver(DOMAIN probs, [c \in DOMAIN probs |-> probs[c] * codes[c][2]])

\* The least weighted length of a prefix-free binary code for the symbols S:
\* every such code is the leaves of a binary tree, and a tree with a node of
\* one child is never cheaper than the tree without that node, so the least
\* is taken over every way to split S in two, again and again: each split
\* adds one bit to every symbol of S.
RECURSIVE OptCost(_)
OptCost(S) ==
    IF Cardinality(S) <= 1 THEN 0
    ELSE LET x == CHOOSE x \in S : TRUE
             R == S \ {x}
         IN  SumFreq(S) + MinOf({OptCost(A \cup {x}) + OptCost(R \ A) :
                                    A \in (SUBSET R) \ {R}})

\* C2: the weighted sum of code lengths of the derived code is the least of
\* any prefix-free binary code for the table, whichever of equal-weight nodes
\* is popped first; for the table {5, 9, 12, 13, 16, 45} it is 224.
C2_Optimal ==
    pc = "encoded" =>
        /\ Cost = OptCost(DOMAIN probs)
        /\ probs = ClassicTable => Cost = 224

C2_Witness == pc = "encoded" /\ probs = ClassicTable /\ Cost = 224

\* C4: Tree::from fails exactly on the empty table: it panics there ("At
\* least one character") and yields no tree, and on a non-empty table it
\* never panics and returns a tree.
C4_EmptyFails ==
    /\ pc = "panicked" => (DOMAIN probs = {} /\ tree = NoTree)
    /\ Built => (DOMAIN probs # {} /\ tree # NoTree /\ tree.kind \in {"Leaf", "Node"})
    /\ (pc = "loop" /\ DOMAIN probs # {}) => queue # {}

C4_Witness == pc = "panicked" /\ probs = EmptyMap /\ tree = NoTree

\* C6: a symbol with a strictly greater count than another never has a longer
\* code than it.
C6_Monotone ==
    Encoded =>
        \A a, b \in DOMAIN probs : probs[a] > probs[b] => codes[a][2] <= codes[b][2]

C6_Witness ==
    /\ pc = "encoded"
    /\ \E a, b \in DOMAIN probs : probs[a] > probs[b] /\ codes[a][2] < codes[b][2]
    /\ \E a, b \in DOMAIN probs : probs[a] > probs[b] /\ codes[a][2] = codes[b][2]

\* C7: for a table of one symbol x, Tree::from does not fail and returns a
\* single Leaf for x, encode returns the one entry x -> <<0, 0>>, and
\* write_bits with that code leaves the sink, the buffer and buffer_len as
\* they were.
C7_SingleSymbol ==
    NSyms = 1 =>
        /\ pc # "panicked"
        /\ Built => \E x \in DOMAIN probs : tree = Leaf(x, probs[x])
        /\ Encoded => \E x \in DOMAIN probs : codes = (x :> <<0, 0>>)
        /\ (last # NoCall /\ wpc = "open") =>
              /\ last.length = 0
              /\ ~last.panic /\ ~last.overflow
              /\ inner = last.before.inner
              /\ buffer = last.before.buffer
              /\ buffer_len = last.before.buffer_len

C7_Witness ==
    /\ NSyms = 1 /\ pc = "writing" /\ wpc = "open"
    /\ last # NoCall /\ last.length = 0 /\ inner = <<>>
    /\ tree.kind = "Leaf"

\* The trees that hold the nodes built so far.
Forest == IF pc = "loop" THEN queue ELSE IF Built THEN {tree} ELSE {}

\* C9: at every pass of the loop of Tree::from on a table of n symbols, and
\* for its result, the leaves of the forest are exactly the symbols of the
\* table, each once and with its count as weight, the forest of k trees has
\* n - k internal nodes (n - 1 for the result), and the weight of every
\* internal node is the sum of its children's (the root of the result
\* weighs the sum of all counts).
C9_TreeStructure ==
    (pc = "loop" \/ Built) =>
        /\ UNION {Leaves(t) : t \in Forest} = {Leaf(c, probs[c]) : c \in DOMAIN probs}
        /\ SumOver(Forest, [t \in Forest |-> CountLeaves(t)]) = NSyms
        /\ SumOver(Forest, [t \in Forest |-> CountInternal(t)]) = NSyms - Cardinality(Forest)
        /\ \A t \in Forest : \A i \in Internal(t) : i.p = i.l.p + i.r.p
        /\ Built => (CountInternal(tree) = NSyms - 1 /\ prob(tree) = SumFreq(DOMAIN probs))

C9_Witness ==
    /\ pc = "built" /\ NSyms = MaxSyms
    /\ CountInternal(tree) = MaxSyms - 1 /\ CountLeaves(tree) = MaxSyms

\* One pass of the loop.
CombineStep == pc = "loop" /\ pc' = "loop" /\ steps' = steps + 1

\* The two nodes extracted are the two lightest of the heap, the lighter first,
\* and their sum, the first on the left, replaces them.
CombineOrdered ==
    CombineStep =>
        /\ first' \in queue /\ second' \in queue /\ first' # second'
        /\ prob(first') <= prob(second')
        /\ \A t \in queue \ {first', second'} : prob(second') <= prob(t)
        /\ queue' = (queue \ {first', second'})
                       \cup {Node(first', second', prob(first') + prob(second'))}
        /\ Cardinality(queue') = Cardinality(queue) - 1

\* The loop ends with one node in the heap, after n - 1 passes: the result.
FinishResult ==
    (pc = "loop" /\ pc' = "built") =>
        /\ queue = {tree'}
        /\ steps = NSyms - 1

\* C10: every pass of the loop of Tree::from extracts the two lowest-weight
\* nodes of the heap (first.weight <= second.weight <= every node left),
\* pushes Node(first, second, sum) and shrinks the heap by one; on a non-empty
\* table of n symbols the loop ends after exactly n - 1 passes with one node
\* left, which is the result.
C10_BuildLoop ==
    /\ [][CombineOrdered]_vars
    /\ [][FinishResult]_vars
    /\ [](pc = "loop" => steps = NSyms - Cardinality(queue))
    /\ (pc \in {"main", "loop"} /\ DOMAIN probs # {}) ~> (pc = "built" /\ steps = NSyms - 1)

C10_Witness ==
    /\ pc = "built" /\ NSyms = MaxSyms /\ steps = MaxSyms - 1
    /\ tree.kind = "Node" /\ tree.l = first /\ tree.r = second

\* ------------------------------------------------ the bit writer's claims
\* The k low bits of x, least significant first.
RECURSIVE BitsLSB(_, _)
BitsLSB(x, k) == IF k = 0 THEN <<>> ELSE <<x % 2>> \o BitsLSB(x \div 2, k - 1)

\* The bits asked of write_bits by the requests rs, in order.
RECURSIVE WrittenBits(_)
WrittenBits(rs) ==
    IF rs = <<>> THEN <<>>
    ELSE BitsLSB(Head(rs)[1], Head(rs)[2]) \o WrittenBits(Tail(rs))

\* The bytes bs read bit by bit, least significant bit of each byte first.
RECURSIVE ReadBack(_)
ReadBack(bs) ==
    IF bs = <<>> THEN <<>>
    ELSE BitsLSB(Head(bs), BYTE_BITS) \o ReadBack(Tail(bs))

RECURSIVE TotalLength(_)
TotalLength(rs) == IF rs = <<>> THEN 0 ELSE Head(rs)[2] + TotalLength(Tail(rs))

\* The number of bits asked of the writer so far.
NBits == TotalLength(requests)

Zeros(k) == [i \in 1..k |-> 0]

\* C3: once the writer is dropped, the bytes of the sink read back bit by
\* bit, least significant first, are the bits written, in order, followed by
\* the zero padding of the last byte.
C3_RoundTrip ==
    wpc = "dropped" =>
        ReadBack(inner) =
            WrittenBits(requests) \o Zeros((BYTE_BITS - (NBits % BYTE_BITS)) % BYTE_BITS)

\* The bit counts the passes of one write_bits call take, from a byte with
\* `filled` bits and `remaining` bits to write.
RECURSIVE ExpectedChunks(_, _)
ExpectedChunks(filled, remaining) ==
    IF remaining = 0 THEN <<>>
    ELSE LET k == Min(BYTE_BITS - filled, remaining)
         IN  <<k>> \o ExpectedChunks((filled + k) % BYTE_BITS, remaining - k)

\* C5: a write_bits call of any length 0..64, from any fill level, returns
\* without an arithmetic overflow and takes exactly `length` bits, each pass
\* min(8 - filled, remaining) of them.
C5_WriteBitsSplits ==
    last # NoCall =>
        /\ ~last.overflow
        /\ ~last.panic
        /\ SumOver(DOMAIN last.chunks, last.chunks) = last.length
        /\ last.chunks =
              ExpectedChunks((NBits - last.length) % BYTE_BITS, last.length)

\* C8: the writer starts empty; after n bits written buffer_len is n mod 8,
\* within 0..7, and the sink holds n div 8 bytes; the drop adds one byte when
\* n mod 8 is not 0, and none otherwise.
C8_Accumulator ==
    /\ requests = <<>> => (buffer = 0 /\ buffer_len = 0 /\ inner = <<>>)
    /\ wpc = "open" =>
          /\ buffer_len \in 0..(BYTE_BITS - 1)
          /\ buffer_len = NBits % BYTE_BITS
          /\ Len(inner) = NBits \div BYTE_BITS
    /\ wpc = "dropped" =>
          Len(inner) = (NBits \div BYTE_BITS) + (IF NBits % BYTE_BITS = 0 THEN 0 ELSE 1)

====
